---- MODULE Spec2Model ----
(***************************************************************************)
(* Gift-wrapped Nostr messages of shpstr-cptest (lib/services/nostr.ts,   *)
(* the simulated pipeline, and lib/nostr.ts, the relay version), with the  *)
(* Cashu page, the dispute service, the simulated HODL invoices and the    *)
(* automated settlement service, each under a specification of its own.    *)
(*                                                                         *)
(* Cryptography is modelled symbolically:                                  *)
(*  - a private key string is a natural number: 0 is a string of 64 hex    *)
(*    digits that is no valid curve scalar, the numbers above MaxScalar    *)
(*    are strings of another shape; the public key of scalar k is -k and   *)
(*    0 is a string that is no curve point;                                *)
(*  - the ECDH secret of scalar a and point -b is the set {a, b};          *)
(*  - a NIP-04 ciphertext string "<base64 ct>?iv=<base64 iv>" is a record  *)
(*    holding the secret, the plaintext and the place of a changed byte;   *)
(*  - sha256 is injective: a hash is the serialized value it was taken of; *)
(*  - a Schnorr signature is the pair (signed id, public key it verifies   *)
(*    under);                                                              *)
(*  - two draws of the random source never give the same scalar;           *)
(*  - hexToBytes is the reading of a key string as its scalar, and the     *)
(*    random IV of nip04.encrypt is left out of the ciphertext record, so  *)
(*    that equal inputs give equal ciphertexts.                            *)
(***************************************************************************)
EXTENDS FiniteSets, Integers, Sequences, TLC

\* ------------------------------------------------------------------ bounds
NumUsers == 2        \* identities held by the parties: scalars 1..NumUsers
MaxSends == 2        \* calls of sendGiftWrappedMessage (either version)
MaxTime == 1         \* Date.now()/1000 takes the values 0..MaxTime
NumMessages == 2     \* distinct message texts

MaxScalar == NumUsers + MaxSends

ValidScalars == 1..MaxScalar
UserScalars == 1..NumUsers
PrivateKeys == 0..MaxScalar
ValidPubkeys == {-k : k \in ValidScalars}
UserPubkeys == {-k : k \in UserScalars}

\* ------------------------------------------------------------ string values
Throw == [t |-> "throw"]
Null == [t |-> "null"]
Empty == [t |-> "empty"]
Garbage == [t |-> "garbage"]
EmptyObject == [t |-> "object"]

Messages == {[t |-> "text", v |-> i] : i \in 1..NumMessages}

\* the text m with some of its bits flipped
Flip(m) == [m EXCEPT !.v = -m.v]

\* now     Math.floor(Date.now() / 1000)
\* issued  the scalars drawn so far from the random source, the parties' included
\* sent    one record per sendGiftWrappedMessage call that returned an event
\* call    the call of the API whose result its caller is looking at, with its
\*         arguments and its result; NoCall between two calls
\* page    the React state of the Cashu page (app/cashu/page.tsx)
\* tasks   the calls running concurrently, each with its position and locals
\* disputes  ARBITER_PUBKEY and the Dispute objects createDispute has returned
\* invoices  the HodlInvoice each holder of a simulated invoice has now
\* monitor   the automated settlement service: its monitoredInvoices, the
\*           interval timers, the timer callbacks under way
VARIABLES now, issued, sent, call, page, tasks, disputes, invoices, monitor

vars == <<now, issued, sent, call, page, tasks, disputes, invoices, monitor>>

\* --------------------------------------------------------------- nostr-tools
IsPrivateKey(sk) == sk \in ValidScalars

IsPubkey(pk) == pk \in ValidPubkeys

\* defined for IsPrivateKey(sk); the library throws otherwise
getPublicKey(sk) == -sk

\* x coordinate of sk * pk
getSharedSecret(sk, pk) == {sk, -pk}

\* sha256 of JSON.stringify([0, pubkey, created_at, kind, tags, content])
getEventHash(e) ==
  [t |-> "hash", of |-> <<0, e.pubkey, e.created_at, e.kind, e.tags, e.content>>]

schnorrSign(id, sk) == [t |-> "sig", id |-> id, pub |-> getPublicKey(sk)]

\* defined for IsPrivateKey(sk)
finalizeEvent(e, sk) ==
  LET e1 == [e EXCEPT !.pubkey = getPublicKey(sk)]
      e2 == [e1 EXCEPT !.id = getEventHash(e1)]
  IN  [e2 EXCEPT !.sig = schnorrSign(e2.id, sk)]

\* recompute the id from the current fields, check the signature over it
verifyEvent(e) ==
  /\ e.t = "event"
  /\ e.id = getEventHash(e)
  /\ e.sig = [t |-> "sig", id |-> e.id, pub |-> e.pubkey]

nip04_encrypt(sk, pk, text) ==
  IF IsPrivateKey(sk) /\ IsPubkey(pk)
  THEN [t |-> "ct", key |-> getSharedSecret(sk, pk), pt |-> text, dmg |-> "none"]
  ELSE Throw

JSON_stringify(v) == [t |-> "json", v |-> v]

JSON_parse(s) == IF s.t = "json" THEN s.v ELSE Throw

\* A changed byte of "<base64 ct>?iv=<base64 iv>", by what it damages:
\*   "encoding"  the string is no longer two base64 parts joined by "?iv="
\*   "iv"        a byte of the IV: the same bits of the first plaintext block flip
\*   "last"      the last ciphertext block, which carries the PKCS#7 padding
\*   a field     a ciphertext block lying inside that field of the serialized
\*               event: 16 plaintext bytes of the field become random bytes
\*               ("content" and "sig" stand for the fields unsealMessage reads
\*               and for those it never reads)
TamperPositions == {"encoding", "iv", "content", "sig", "last"}

GarbledTags(tags) == <<[tags[1] EXCEPT ![2] = 0]>>

\* the plaintexts AES-CBC yields under the right key from a ciphertext with one
\* changed byte; which one depends on the key bytes and the byte changed
DamagedPlaintexts(pt, dmg) ==
  IF dmg = "last" THEN {Throw, Garbage}
  ELSE IF pt.t = "json" /\ pt.v.t = "event" THEN
    LET e == pt.v IN
    CASE dmg = "iv"      -> {Garbage, JSON_stringify([e EXCEPT !.kind = @ - 1])}
      [] dmg = "content" -> {Garbage, JSON_stringify([e EXCEPT !.content = Garbage])}
      [] dmg = "sig"     -> {Garbage, JSON_stringify([e EXCEPT !.sig = Garbage])}
  ELSE IF dmg = "iv" THEN
    IF pt.t = "text" THEN {Throw, Flip(pt)} ELSE {Throw, Garbage}
  ELSE {Throw, Garbage}

\* the set of results of nip04.decrypt(sk, pk, data); Throw is an exception
nip04_decrypt(sk, pk, data) ==
  IF data.t # "ct" THEN {Throw}
  ELSE IF ~(IsPrivateKey(sk) /\ IsPubkey(pk)) THEN {Throw}
  ELSE IF data.dmg = "encoding" THEN {Throw}
  ELSE IF getSharedSecret(sk, pk) # data.key THEN {Throw, Garbage}
  ELSE IF data.dmg = "none" THEN {data.pt}
  ELSE DamagedPlaintexts(data.pt, data.dmg)

\* ------------------------------------------------- services/nostr.ts (simulated)
\* the outcomes of randomBytes(32) after the draws `drawn`: a scalar never drawn
\* before (scalars are named in the order of their first draw), or bytes that
\* are no valid scalar, for which getPublicKey throws
generateNostrKeys(drawn) ==
  {k \in ValidScalars \ drawn : \A j \in ValidScalars \ drawn : k <= j} \cup {0}

buildDirectMessage(senderPubkey, receiverPubkey, message, time) ==
  [t |-> "event", kind |-> 14, pubkey |-> senderPubkey, created_at |-> time,
   tags |-> << <<"p", receiverPubkey, "wss://relay.example.com">> >>,
   content |-> message, id |-> Empty, sig |-> Empty]

\* finishEvent leaving alone an id the event already carries
finishEvent_keepsId(event, privateKey) ==
  IF event.id = Empty THEN finalizeEvent(event, privateKey)
  ELSE LET e1 == [event EXCEPT !.pubkey = getPublicKey(privateKey)]
       IN  [e1 EXCEPT !.sig = schnorrSign(e1.id, privateKey)]

finishEvent(event, privateKey) == finalizeEvent(event, privateKey)

\* sealMessage encrypting to the sender's own public key
sealMessage_toSelf(plainEvent, senderPrivkey, receiverPubkey) ==
  LET encryptedContent == nip04_encrypt(senderPrivkey, getPublicKey(senderPrivkey),
                                        plainEvent.content)
  IN  IF encryptedContent = Throw \/ ~IsPubkey(receiverPubkey) THEN Throw
      ELSE finishEvent([plainEvent EXCEPT !.kind = 13, !.content = encryptedContent],
                       senderPrivkey)

\* sealMessage returning the sealed event without finishing it
sealMessage_unsigned(plainEvent, senderPrivkey, receiverPubkey) ==
  LET encryptedContent == nip04_encrypt(senderPrivkey, receiverPubkey, plainEvent.content)
  IN  IF encryptedContent = Throw THEN Throw
      ELSE [plainEvent EXCEPT !.kind = 13, !.content = encryptedContent]

sealMessage(plainEvent, senderPrivkey, receiverPubkey) ==
  LET encryptedContent == nip04_encrypt(senderPrivkey, receiverPubkey, plainEvent.content)
  IN  IF encryptedContent = Throw THEN Throw
      ELSE finishEvent([plainEvent EXCEPT !.kind = 13, !.content = encryptedContent],
                       senderPrivkey)

\* giftWrapMessage tagging the event with the key it was wrapped with
giftWrapMessage_tagsKey(sealedEvent, wrappingPrivkey, receiverPubkey, time) ==
  LET giftContent == nip04_encrypt(wrappingPrivkey, receiverPubkey,
                                   JSON_stringify(sealedEvent))
  IN  IF giftContent = Throw THEN Throw
      ELSE finishEvent([t |-> "event", kind |-> 1059,
                        pubkey |-> getPublicKey(wrappingPrivkey), created_at |-> time,
                        tags |-> << <<"p", receiverPubkey>>, <<"k", wrappingPrivkey>> >>,
                        content |-> giftContent, id |-> Empty, sig |-> Empty],
                       wrappingPrivkey)

giftWrapMessage(sealedEvent, wrappingPrivkey, receiverPubkey, time) ==
  LET giftContent == nip04_encrypt(wrappingPrivkey, receiverPubkey,
                                   JSON_stringify(sealedEvent))
  IN  IF giftContent = Throw THEN Throw
      ELSE finishEvent([t |-> "event", kind |-> 1059,
                        pubkey |-> getPublicKey(wrappingPrivkey), created_at |-> time,
                        tags |-> << <<"p", receiverPubkey>> >>,
                        content |-> giftContent, id |-> Empty, sig |-> Empty],
                       wrappingPrivkey)

\* unwrapGiftMessage whose catch block returns the event it was given
unwrapGiftMessage_returnsInput(giftWrappedEvent, receiverPrivkey) ==
  { IF d = Throw THEN giftWrappedEvent
    ELSE IF JSON_parse(d) = Throw THEN giftWrappedEvent
    ELSE JSON_parse(d) :
    d \in nip04_decrypt(receiverPrivkey, giftWrappedEvent.pubkey, giftWrappedEvent.content) }

\* the set of results of unwrapGiftMessage: every exception becomes null
unwrapGiftMessage(giftWrappedEvent, receiverPrivkey) ==
  { IF d = Throw THEN Null
    ELSE IF JSON_parse(d) = Throw THEN Null
    ELSE JSON_parse(d) :
    d \in nip04_decrypt(receiverPrivkey, giftWrappedEvent.pubkey, giftWrappedEvent.content) }

\* the set of results of unsealMessage: every exception becomes null
unsealMessage(sealedEvent, receiverPrivkey) ==
  IF sealedEvent.t # "event" THEN {Null}
  ELSE { IF d = Throw THEN Null ELSE d :
         d \in nip04_decrypt(receiverPrivkey, sealedEvent.pubkey, sealedEvent.content) }

\* receive: unwrapGiftMessage, then unsealMessage when it returned a value;
\* the set of pairs <<unwrappedMsg, decryptedContent>> a caller may get
receive(giftWrappedMsg, receiverPrivkey) ==
  UNION { IF unwrappedMsg # Null
          THEN {<<unwrappedMsg, d>> : d \in unsealMessage(unwrappedMsg, receiverPrivkey)}
          ELSE {<<Null, Null>>} :
          unwrappedMsg \in unwrapGiftMessage(giftWrappedMsg, receiverPrivkey) }

\* Key strings that are not 64 hexadecimal characters. A well-formed string is
\* named by the scalar it encodes (0: the zero scalar, or one not below the
\* curve order); the malformed ones are named by numbers above MaxScalar:
\*   TooShort  62 hexadecimal characters
\*   TooLong   the key string of scalar 1 followed by two more hexadecimal
\*             characters
\*   NotHex    64 characters, none of them hexadecimal
TooShort == MaxScalar + 1

TooLong == MaxScalar + 2

NotHex == MaxScalar + 3

KeyStrings == PrivateKeys \cup {TooShort, TooLong, NotHex}

\* privateKey.length === 64 && /^[0-9a-f]+$/i.test(privateKey)
IsKeyFormat(privateKey) == privateKey \in PrivateKeys

\* the scalar in the 32 bytes copied from Buffer.from(hex, 'hex'): decoding
\* stops at the first character that is not hexadecimal, a missing byte reads
\* as 0 and bytes beyond the 32nd are dropped
BufferFromHex(hex) ==
  CASE hex = TooLong -> 1
    [] hex \in {TooShort, NotHex} -> 0
    [] OTHER -> hex

\* importNostrKeys without the test of length and characters
importNostrKeys_noFormatCheck(privateKey) ==
  LET privateKeyBytes == BufferFromHex(privateKey)
  IN  IF ~IsPrivateKey(privateKeyBytes) THEN Throw
      ELSE [privateKey |-> privateKey, publicKey |-> getPublicKey(privateKeyBytes)]

\* every exception, that of getPublicKey included, is caught and thrown again
\* as 'Invalid private key format'
importNostrKeys(privateKey) ==
  IF ~IsKeyFormat(privateKey) THEN Throw
  ELSE LET privateKeyBytes == BufferFromHex(privateKey)
       IN  IF ~IsPrivateKey(privateKeyBytes) THEN Throw
           ELSE [privateKey |-> privateKey, publicKey |-> getPublicKey(privateKeyBytes)]

\* sendGiftWrappedMessage reading the bytes of the sender's key string itself
\* instead of calling importNostrKeys
sendGiftWrappedMessage_noImport(senderPrivateKey, recipientPublicKey, content, wrapperKey, time) ==
  LET privateKeyBytes == BufferFromHex(senderPrivateKey)
  IN  IF ~IsPrivateKey(privateKeyBytes) THEN Throw
      ELSE
        LET directMsg == buildDirectMessage(getPublicKey(privateKeyBytes),
                                            recipientPublicKey, content, time)
            sealedMsg == sealMessage(directMsg, privateKeyBytes, recipientPublicKey)
        IN  IF sealedMsg = Throw THEN Throw
            ELSE IF ~IsPrivateKey(wrapperKey) THEN Throw
            ELSE [version |-> "simulated", sender |-> senderPrivateKey,
                  receiver |-> recipientPublicKey, message |-> content,
                  direct |-> directMsg, sealed |-> sealedMsg,
                  wrapped |-> giftWrapMessage(sealedMsg, wrapperKey,
                                              recipientPublicKey, time)]

\* sendGiftWrappedMessage of services/nostr.ts; wrapperKey is the draw of
\* generateNostrKeys
sendGiftWrappedMessage(senderPrivateKey, recipientPublicKey, content, wrapperKey, time) ==
  IF importNostrKeys(senderPrivateKey) = Throw THEN Throw
  ELSE
    LET directMsg == buildDirectMessage(importNostrKeys(senderPrivateKey).publicKey,
                                        recipientPublicKey, content, time)
        sealedMsg == sealMessage(directMsg, senderPrivateKey, recipientPublicKey)
    IN  IF sealedMsg = Throw THEN Throw
        ELSE IF ~IsPrivateKey(wrapperKey) THEN Throw
        ELSE [version |-> "simulated", sender |-> senderPrivateKey,
              receiver |-> recipientPublicKey, message |-> content,
              direct |-> directMsg, sealed |-> sealedMsg,
              wrapped |-> giftWrapMessage(sealedMsg, wrapperKey, recipientPublicKey, time)]

\* ------------------------------------------- app/api/nostr/gift-wrap/route.ts
\* A request body is named by its three fields and by the set of those that
\* are absent or empty; Garbage is a body request.json() cannot parse.
Response400 ==
  [t |-> "response", status |-> 400,
   error |-> "Missing required fields: content, recipientPubkey, senderPrivkey"]

\* the text of the exception follows 'Failed to send message. '
Response500 == [t |-> "response", status |-> 500, error |-> "Failed to send message. "]

Response200(event) ==
  [t |-> "response", status |-> 200, success |-> TRUE,
   event |-> [id |-> event.id, pubkey |-> event.pubkey,
              created_at |-> event.created_at, kind |-> event.kind]]

\* POST: the pair of the response and of what sendGiftWrappedMessage returned
\* (Null when it was not called)
POST(body, wrapperKey, time) ==
  IF body = Garbage THEN <<Response500, Null>>
  ELSE IF body.missing # {} THEN <<Response400, Null>>
  ELSE LET r == sendGiftWrappedMessage(body.senderPrivkey, body.recipientPubkey,
                                       body.content, wrapperKey, time)
       IN  IF r = Throw THEN <<Response500, Throw>>
           ELSE <<Response200(r.wrapped), r>>

\* ------------------------------------------------------ lib/nostr.ts (relays)
\* sendGiftWrappedMessage of the relay version; the event is handed to
\* pool.publish and returned whatever the relays answer
sendGiftWrappedMessageRelay(senderPrivateKey, recipientPublicKey, content, time) ==
  LET encryptedContent == nip04_encrypt(senderPrivateKey, recipientPublicKey, content)
  IN  IF encryptedContent = Throw THEN Throw
      ELSE [version |-> "relay", sender |-> senderPrivateKey,
            receiver |-> recipientPublicKey, message |-> content,
            direct |-> Null, sealed |-> Null,
            wrapped |-> finalizeEvent([t |-> "event", kind |-> 4,
                                       pubkey |-> getPublicKey(senderPrivateKey),
                                       created_at |-> time,
                                       tags |-> << <<"p", recipientPublicKey>> >>,
                                       content |-> encryptedContent,
                                       id |-> Empty, sig |-> Empty],
                                      senderPrivateKey)]

\* the scalar in the 32 bytes parseInt(privateKey.substring(2i, 2i + 2), 16)
\* gives: NaN is stored as 0, characters beyond the 64th are not read
ParseIntBytes(hex) ==
  CASE hex = TooLong -> 1
    [] hex \in {TooShort, NotHex} -> 0
    [] OTHER -> hex

\* importNostrKeys of the relay version
importNostrKeysRelay(privateKey) ==
  IF ~IsKeyFormat(privateKey) THEN Throw
  ELSE LET privateKeyBytes == ParseIntBytes(privateKey)
       IN  IF ~IsPrivateKey(privateKeyBytes) THEN Throw
           ELSE [privateKey |-> privateKey, publicKey |-> getPublicKey(privateKeyBytes)]

\* what events.map(async (event) => ...) makes of one event: the message record,
\* or null when nip04.decrypt throws
decryptEvent(privateKey, event) ==
  { IF d = Throw THEN Null
    ELSE [message |-> d, sender |-> event.pubkey, timestamp |-> event.created_at] :
    d \in nip04_decrypt(privateKey, event.pubkey, event.content) }

\* the arrays Promise.all(events.map(...)) may resolve to
RECURSIVE decryptAll(_, _)
decryptAll(privateKey, events) ==
  IF events = <<>> THEN {<<>>}
  ELSE {<<m>> \o rest : m \in decryptEvent(privateKey, Head(events)),
                        rest \in decryptAll(privateKey, Tail(events))}

NotNull(m) == m # Null

\* messages.filter(m => m !== null)
validMessages(messages) == SelectSeq(messages, NotNull)

\* a JavaScript array
Array(items) == [t |-> "array", v |-> items]

\* receiveGiftWrappedMessages; listed is what pool.list resolves to, Throw when
\* it rejects. The set of pairs <<messages, returned value>>; a key that is no
\* valid scalar makes getPublicKey throw before the try block.
receiveGiftWrappedMessages(privateKey, listed) ==
  IF ~IsPrivateKey(privateKey) THEN {<<Null, Throw>>}
  ELSE IF listed = Throw THEN {<<Null, Array(<<>>)>>}
  ELSE {<<Array(messages), Array(validMessages(messages))>> :
          messages \in decryptAll(privateKey, listed.v)}

\* the 'event' handler of subscribeToGiftWrappedMessages: the argument the
\* callback is called with, or Null when it is not called
onEvent(privateKey, event) == decryptEvent(privateKey, event)

\* ------------------------------------------------ services/cashu.ts (simulated)
\* Cashu keys are secp256k1 keys as well: private scalar k, public key -k, and 0
\* for the empty string of an input field.
MaxTokens == 2       \* tokens created on the page

CreateAmount == 100

\* the outcomes of randomBytes(32) in generateCashuKeys, as for generateNostrKeys
generateCashuKeys(drawn) ==
  {k \in ValidScalars \ drawn : \A j \in ValidScalars \ drawn : k <= j} \cup {0}

\* 'cashuB' + random + base64 of the proofs, each carrying p2pk: pubkey; serial
\* stands for the random parts, which make every token string a new one
getEncodedToken(serial, pubkey) == [t |-> "token", serial |-> serial, p2pk |-> pubkey]

\* createP2PKLockedToken: no test of the public key, no failure
createP2PKLockedToken(amount, recipientPublicKey, serial) ==
  [token |-> getEncodedToken(serial, recipientPublicKey), amount |-> amount,
   lockTo |-> recipientPublicKey]

\* a token string of another wallet, and a text that is no token
ForeignToken == [t |-> "token", serial |-> 0, p2pk |-> -1]

NotAToken == [t |-> "text", v |-> 0]

\* spendToken.startsWith('cashu')
StartsWithCashu(token) == token.t = "token"

\* spendToken.startsWith('cashuB') && spendToken.length > 20
HasCorrectFormat(token) == token.t = "token"

InitialPage ==
  [activeTab |-> "simulation", isLoading |-> FALSE, pending |-> Null,
   createdToken |-> Empty, privateKey |-> 0, publicKey |-> 0, spendToken |-> Empty,
   spendResult |-> "null", spendDetails |-> Null, tokenKeyMap |-> {}]

\* ------------------------------------------------------------ the environment
\* the events handed to the transport or returned for transmission
Wire == {s.wrapped : s \in sent}

\* an event of the wire with one byte of its content changed
TamperedEvents(e) == {[e EXCEPT !.content.dmg = p] : p \in TamperPositions}

\* an event of the wire with one of its other fields changed after signing
MutatedEvents(e) ==
  {[e EXCEPT !.tags = GarbledTags(@)], [e EXCEPT !.created_at = @ + 1],
   [e EXCEPT !.id = Garbage], [e EXCEPT !.sig = Garbage]}
  \cup {[e EXCEPT !.pubkey = pk] : pk \in UserPubkeys \ {e.pubkey}}

CraftedPayloads == {JSON_stringify(EmptyObject), [t |-> "text", v |-> 1]}

\* kind 1059 events a party builds and signs itself around a payload of its choice
CraftedEvents ==
  {finalizeEvent([t |-> "event", kind |-> 1059, pubkey |-> getPublicKey(a),
                  created_at |-> 0, tags |-> << <<"p", r>> >>,
                  content |-> nip04_encrypt(a, r, payload),
                  id |-> Empty, sig |-> Empty], a) :
     a \in UserScalars, r \in UserPubkeys, payload \in CraftedPayloads}

\* what the transport may deliver
Arrivals ==
  Wire \cup UNION {TamperedEvents(e) \cup MutatedEvents(e) : e \in Wire}
       \cup CraftedEvents

NoCall == [op |-> "none"]

\* the concurrent calls
TaskIds == 1..MaxSends

IdleTask ==
  [pc |-> "idle", op |-> "none", args |-> Null, directMsg |-> Null, sealedMsg |-> Null,
   wrapper |-> 0, key |-> 0, listed |-> Null, result |-> Null]

\* no dispute yet; ARBITER_PUBKEY is '' when the environment sets none
NoDisputes(arbiter) == [ARBITER_PUBKEY |-> arbiter, list |-> <<>>]

MaxTimers == 2       \* calls of addInvoice
MaxTicks == 2        \* runs of a timer callback
NumHashes == 2       \* distinct hashes of monitored invoices

InvoiceHashes == 1..NumHashes

\* createAutomatedSettlementService has returned: nothing is monitored.
\*   monitoredInvoices  the entries [hash, checkInterval], one per hash at most
\*   started            the timers setInterval has made so far
\*   timers             the timers not cleared, each with the hash of its
\*                      invoice, whether the invoice was settled when it was
\*                      added and whether cleanup had been called
\*   ticks, runs        the callback runs started, and those at an await
\*   invoked, settled   per hash, the calls of settleHodlInvoice and those of
\*                      them that have set invoice.status = 'settled'
\*   cleaned            cleanup has been called
\*   settledLate        settleHodlInvoice was called after cleanup by the
\*                      callback of a timer started before it
NoMonitoring ==
  [monitoredInvoices |-> {}, started |-> 0, timers |-> {}, ticks |-> 0, runs |-> {},
   invoked |-> [h \in InvoiceHashes |-> 0], settled |-> [h \in InvoiceHashes |-> 0],
   cleaned |-> FALSE, settledLate |-> FALSE]

Init ==
  /\ now = 0
  /\ issued = UserScalars
  /\ sent = {}
  /\ call = NoCall
  /\ page = InitialPage
  /\ tasks = [t \in TaskIds |-> IdleTask]
  /\ disputes = NoDisputes(0)
  /\ invoices = <<>>
  /\ monitor = NoMonitoring

Tick ==
  /\ call = NoCall
  /\ now < MaxTime
  /\ now' = now + 1
  /\ UNCHANGED <<issued, sent, call>>
  /\ UNCHANGED <<page, tasks, disputes, invoices, monitor>>

SendArgs == [sender : {0} \cup UserScalars, receiver : {0} \cup UserPubkeys,
             message : Messages]

\* a call of sendGiftWrappedMessage (services/nostr.ts)
Send(a, w) ==
  /\ call = NoCall
  /\ Cardinality(sent) < MaxSends
  /\ w \in generateNostrKeys(issued)
  /\ LET r == sendGiftWrappedMessage(a.sender, a.receiver, a.message, w, now)
     IN  IF r = Throw
         THEN /\ call' = [op |-> "send", args |-> a, result |-> Throw]
              /\ UNCHANGED <<issued, sent>>
         ELSE /\ call' = [op |-> "send", args |-> a, result |-> r.wrapped]
              /\ sent' = sent \cup {r}
              /\ issued' = issued \cup {w}
  /\ UNCHANGED now
  /\ UNCHANGED <<page, tasks, disputes, invoices, monitor>>

\* sends whose sender key string is not 64 hexadecimal characters
MalformedSendArgs ==
  [sender : {TooShort, TooLong, NotHex}, receiver : UserPubkeys,
   message : {[t |-> "text", v |-> 1]}]

\* request bodies: every field present, or some absent
Bodies ==
  {[t |-> "body", senderPrivkey |-> a.sender, recipientPubkey |-> a.receiver,
    content |-> a.message, missing |-> {}] : a \in SendArgs \cup MalformedSendArgs}
  \cup {[t |-> "body", senderPrivkey |-> 1, recipientPubkey |-> -2,
         content |-> [t |-> "text", v |-> 1], missing |-> m] :
           m \in {{"content"}, {"recipientPubkey"}, {"senderPrivkey"},
                  {"content", "recipientPubkey", "senderPrivkey"}}}
  \cup {Garbage}

\* a request to POST /api/nostr/gift-wrap
Post(body, w) ==
  /\ call = NoCall
  /\ Cardinality(sent) < MaxSends
  /\ w \in generateNostrKeys(issued)
  /\ LET o == POST(body, w, now)
     IN  /\ call' = [op |-> "post", body |-> body, response |-> o[1]]
         /\ IF o[2] \in {Null, Throw}
            THEN UNCHANGED <<issued, sent>>
            ELSE /\ sent' = sent \cup {o[2]}
                 /\ issued' = issued \cup {w}
  /\ UNCHANGED now
  /\ UNCHANGED <<page, tasks, disputes, invoices, monitor>>

\* the relays of the pool
NumRelays == 2
Relays == 1..NumRelays

\* a call of sendGiftWrappedMessage (relay version); accepted are the relays
\* whose promise of pool.publish resolves, the promises of the others reject
SendRelay(a, accepted) ==
  /\ call = NoCall
  /\ Cardinality(sent) < MaxSends
  /\ LET r == sendGiftWrappedMessageRelay(a.sender, a.receiver, a.message, now)
     IN  IF r = Throw
         THEN /\ call' = [op |-> "sendRelay", args |-> a, published |-> {},
                          result |-> Throw]
              /\ UNCHANGED sent
         ELSE /\ call' = [op |-> "sendRelay", args |-> a, published |-> accepted,
                          result |-> r.wrapped]
              /\ sent' = sent \cup {r}
  /\ UNCHANGED <<now, issued>>
  /\ UNCHANGED <<page, tasks, disputes, invoices, monitor>>

\* a call of giftWrapMessage by a caller holding a sealed event and a key
GiftWrap(s, wrappingPrivkey, receiverPubkey) ==
  /\ call = NoCall
  /\ s.version = "simulated"
  /\ call' = [op |-> "giftWrap", sealed |-> s.sealed, key |-> wrappingPrivkey,
              result |-> giftWrapMessage(s.sealed, wrappingPrivkey, receiverPubkey, now)]
  /\ UNCHANGED <<now, issued, sent>>
  /\ UNCHANGED <<page, tasks, disputes, invoices, monitor>>

\* a delivery: the receiving steps of generateGiftWrappedMessageSimulation
Receive(giftWrappedMsg, receiverPrivkey) ==
  /\ call = NoCall
  /\ \E o \in receive(giftWrappedMsg, receiverPrivkey) :
       call' = [op |-> "receive", event |-> giftWrappedMsg, key |-> receiverPrivkey,
                unwrappedMsg |-> o[1], decryptedContent |-> o[2]]
  /\ UNCHANGED <<now, issued, sent>>
  /\ UNCHANGED <<page, tasks, disputes, invoices, monitor>>

\* the events built so far, layer by layer
Layers ==
  Wire \cup {s.sealed : s \in {x \in sent : x.version = "simulated"}}
       \cup {s.direct : s \in {x \in sent : x.version = "simulated"}}

\* the events a caller may hand to finishEvent: those fields, with or without
\* an id and a signature from before
Unfinished == {[e EXCEPT !.id = i, !.sig = i] : e \in Layers, i \in {Empty, Garbage}}

\* a call of finishEvent; a key that is no valid scalar makes finalizeEvent throw
Finish(event, privateKey) ==
  /\ call = NoCall
  /\ call' = [op |-> "finish", event |-> event, key |-> privateKey, time |-> now,
              result |-> IF IsPrivateKey(privateKey) THEN finishEvent(event, privateKey)
                         ELSE Throw]
  /\ UNCHANGED <<now, issued, sent>>
  /\ UNCHANGED <<page, tasks, disputes, invoices, monitor>>

\* a call of generateNostrKeys, of either version, whose random bytes are
\* privateKey; the caller keeps the keys no longer than the call
Generate(privateKey) ==
  /\ call = NoCall
  /\ ValidScalars \ issued # {}
  /\ privateKey \in generateNostrKeys(issued)
  /\ call' = [op |-> "generate", bytes |-> privateKey,
              result |-> IF IsPrivateKey(privateKey)
                         THEN [privateKey |-> privateKey,
                               publicKey |-> getPublicKey(privateKey)]
                         ELSE Throw]
  /\ UNCHANGED <<now, issued, sent>>
  /\ UNCHANGED <<page, tasks, disputes, invoices, monitor>>

\* a call of importNostrKeys, of either version
Import(version, privateKey) ==
  /\ call = NoCall
  /\ call' = [op |-> "import", version |-> version, key |-> privateKey,
              result |-> IF version = "simulated" THEN importNostrKeys(privateKey)
                         ELSE importNostrKeysRelay(privateKey)]
  /\ UNCHANGED <<now, issued, sent>>
  /\ UNCHANGED <<page, tasks, disputes, invoices, monitor>>

\* the caller is done with the result; the services keep nothing of a call
Return ==
  /\ call # NoCall
  /\ call' = NoCall
  /\ UNCHANGED <<now, issued, sent>>
  /\ UNCHANGED <<page, tasks, disputes, invoices, monitor>>

Next ==
  \/ Tick
  \/ Return
  \/ \E a \in SendArgs \cup MalformedSendArgs, w \in PrivateKeys : Send(a, w)
  \/ \E b \in Bodies, w \in PrivateKeys : Post(b, w)
  \/ \E a \in SendArgs, accepted \in SUBSET Relays : SendRelay(a, accepted)
  \/ \E s \in sent, k \in {0} \cup UserScalars, r \in {0} \cup UserPubkeys : GiftWrap(s, k, r)
  \/ \E e \in Arrivals, k \in {0} \cup issued : Receive(e, k)
  \/ \E e \in Unfinished, k \in {0} \cup UserScalars : Finish(e, k)
  \/ \E v \in {"simulated", "relay"}, k \in KeyStrings : Import(v, k)
  \/ \E k \in PrivateKeys : Generate(k)

Spec == Init /\ [][Next]_vars

\* ------------------------------------------------- receiving from the relays
MaxBatch == 2        \* events in one answer of pool.list

\* the kind 4 events the relay version has published
RelayWire == {s.wrapped : s \in {x \in sent : x.version = "relay"}}

\* kind 4 events another party builds, signs and publishes for receiver r: a
\* message encrypted for r, a ciphertext under a secret r cannot derive, and
\* a content that is no NIP-04 ciphertext
CraftedContents(a, r) ==
  {nip04_encrypt(a, r, [t |-> "text", v |-> 1]),
   [nip04_encrypt(a, r, [t |-> "text", v |-> 1]) EXCEPT !.key = {0}],
   Garbage}

CraftedRelayEvents ==
  UNION {{finalizeEvent([t |-> "event", kind |-> 4, pubkey |-> getPublicKey(1),
                         created_at |-> 0, tags |-> << <<"p", r>> >>,
                         content |-> c, id |-> Empty, sig |-> Empty], 1) :
            c \in CraftedContents(1, r)} : r \in UserPubkeys}

\* what the relays may hold: published events, published events with a byte
\* of the content changed on the way, events of other parties
RelayArrivals ==
  RelayWire \cup {[e EXCEPT !.content.dmg = p] : e \in RelayWire, p \in {"iv", "last"}}
            \cup CraftedRelayEvents

\* the events matching the filter {kinds: [4], '#p': [publicKey]}
Matching(publicKey) ==
  {e \in RelayArrivals : e.kind = 4 /\ e.tags[1][2] = publicKey}

\* the sequences of at most n distinct events
RECURSIVE Batches(_, _)
Batches(events, n) ==
  IF n = 0 THEN {<<>>}
  ELSE LET shorter == Batches(events, n - 1)
       IN  shorter \cup UNION {{Append(l, e) : e \in events \ {l[i] : i \in 1..Len(l)}} :
                                 l \in shorter}

\* what pool.list may resolve to for that filter
Listings(publicKey) == Batches(Matching(publicKey), MaxBatch)

\* a call of receiveGiftWrappedMessages
ListMessages(privateKey, listed) ==
  /\ call = NoCall
  /\ \E o \in receiveGiftWrappedMessages(privateKey, listed) :
       call' = [op |-> "list", key |-> privateKey, listed |-> listed,
                messages |-> o[1], result |-> o[2]]
  /\ UNCHANGED <<now, issued, sent>>
  /\ UNCHANGED <<page, tasks, disputes, invoices, monitor>>

\* the 'event' handler of a subscription of privateKey runs on an event
Deliver(privateKey, event) ==
  /\ call = NoCall
  /\ IsPrivateKey(privateKey)
  /\ \E m \in onEvent(privateKey, event) :
       call' = [op |-> "event", key |-> privateKey, event |-> event, callback |-> m]
  /\ UNCHANGED <<now, issued, sent>>
  /\ UNCHANGED <<page, tasks, disputes, invoices, monitor>>

NextRelay ==
  \/ Tick
  \/ Return
  \/ \E a \in SendArgs, accepted \in SUBSET Relays : SendRelay(a, accepted)
  \/ \E k \in {0} \cup UserScalars :
       \/ ListMessages(k, Throw)
       \/ \E l \in Listings(getPublicKey(k)) : ListMessages(k, Array(l))
  \/ \E k \in UserScalars : \E e \in Matching(getPublicKey(k)) : Deliver(k, e)

SpecRelay == Init /\ [][NextRelay]_vars

\* ------------------------------------------------------ app/cashu/page.tsx
\* the tokens the page has created, each with the private key field's value at
\* the time
CreatedTokens == {m.token : m \in page.tokenKeyMap}

handleTabChange(tab) ==
  /\ tab # page.activeTab
  /\ page' = IF tab = "simulation"
             THEN [page EXCEPT !.activeTab = tab, !.spendToken = Empty,
                               !.spendResult = "null", !.spendDetails = Null,
                               !.createdToken = Empty, !.privateKey = 0,
                               !.publicKey = 0]
             ELSE [page EXCEPT !.activeTab = tab]
  /\ UNCHANGED <<now, issued, sent, call, tasks, disputes, invoices, monitor>>

\* an exception of generateCashuKeys leaves the state as it is
handleGenerateKeys(privateKey) ==
  /\ page.activeTab = "manual"
  /\ ValidScalars \ issued # {}
  /\ privateKey \in generateCashuKeys(issued)
  /\ IF IsPrivateKey(privateKey)
     THEN /\ page' = [page EXCEPT !.privateKey = privateKey,
                                  !.publicKey = getPublicKey(privateKey),
                                  !.createdToken = Empty, !.spendResult = "null",
                                  !.spendDetails = Null]
          /\ issued' = issued \cup {privateKey}
     ELSE UNCHANGED <<page, issued>>
  /\ UNCHANGED <<now, sent, call, tasks, disputes, invoices, monitor>>

\* the input fields
setPrivateKey(value) ==
  /\ page.activeTab = "manual"
  /\ page' = [page EXCEPT !.privateKey = value]
  /\ UNCHANGED <<now, issued, sent, call, tasks, disputes, invoices, monitor>>

setPublicKey(value) ==
  /\ page.activeTab = "manual"
  /\ page' = [page EXCEPT !.publicKey = value]
  /\ UNCHANGED <<now, issued, sent, call, tasks, disputes, invoices, monitor>>

setSpendToken(value) ==
  /\ page.activeTab = "manual"
  /\ page' = [page EXCEPT !.spendToken = value]
  /\ UNCHANGED <<now, issued, sent, call, tasks, disputes, invoices, monitor>>

useCreatedToken ==
  /\ page.activeTab = "manual"
  /\ page.createdToken # Empty
  /\ page' = [page EXCEPT !.spendToken = page.createdToken]
  /\ UNCHANGED <<now, issued, sent, call, tasks, disputes, invoices, monitor>>

\* handleCreateToken up to its await: the handler keeps the publicKey and
\* privateKey of the render it was called from
handleCreateToken ==
  /\ page.activeTab = "manual"
  /\ ~page.isLoading
  /\ page.publicKey # 0
  /\ Cardinality(page.tokenKeyMap) < MaxTokens
  /\ page' = [page EXCEPT !.isLoading = TRUE,
                          !.pending = [publicKey |-> page.publicKey,
                                       privateKey |-> page.privateKey]]
  /\ UNCHANGED <<now, issued, sent, call, tasks, disputes, invoices, monitor>>

\* handleCreateToken after createP2PKLockedToken has resolved
handleCreateTokenDone ==
  /\ page.pending # Null
  /\ LET result == createP2PKLockedToken(CreateAmount, page.pending.publicKey,
                                          Cardinality(page.tokenKeyMap) + 1)
     IN  page' = [page EXCEPT !.createdToken = result.token,
                              !.tokenKeyMap = @ \cup {[token |-> result.token,
                                                       key |-> page.pending.privateKey]},
                              !.isLoading = FALSE, !.pending = Null]
  /\ UNCHANGED <<now, issued, sent, call, tasks, disputes, invoices, monitor>>

handleSpendToken ==
  /\ page.activeTab = "manual"
  /\ ~page.isLoading
  /\ page.spendToken # Empty
  /\ IF ~StartsWithCashu(page.spendToken)
     THEN page' = [page EXCEPT !.spendResult = "false", !.spendDetails = Null]
     ELSE LET isCreatedToken == page.spendToken = page.createdToken
              tokenMatchesCurrentKey ==
                [token |-> page.spendToken, key |-> page.privateKey] \in page.tokenKeyMap
              hasCorrectFormat == HasCorrectFormat(page.spendToken)
              result == isCreatedToken /\ (tokenMatchesCurrentKey \/ hasCorrectFormat)
          IN  page' = [page EXCEPT
                         !.spendResult = IF result THEN "true" ELSE "false",
                         !.spendDetails = IF result
                                          THEN [token |-> page.spendToken,
                                                keyVerified |-> page.privateKey]
                                          ELSE Null]
  /\ UNCHANGED <<now, issued, sent, call, tasks, disputes, invoices, monitor>>

NextCashu ==
  \/ \E tab \in {"simulation", "manual"} : handleTabChange(tab)
  \/ \E k \in PrivateKeys : handleGenerateKeys(k)
  \/ \E k \in PrivateKeys : setPrivateKey(k)
  \/ \E pk \in {0} \cup UserPubkeys : setPublicKey(pk)
  \/ \E token \in CreatedTokens \cup {ForeignToken, NotAToken} : setSpendToken(token)
  \/ useCreatedToken
  \/ handleCreateToken
  \/ handleCreateTokenDone
  \/ handleSpendToken

SpecCashu == Init /\ [][NextCashu]_vars

\* --------------------------------------------------------- concurrent calls
\* A call runs from one await to the next without interruption; between two
\* awaits of one call any other call may run.
\* sendGiftWrappedMessage up to the await of nip04.encrypt in sealMessage
SendStart(t, a) ==
  /\ tasks[t].pc = "idle"
  /\ LET sender == importNostrKeys(a.sender)
     IN  IF sender = Throw \/ nip04_encrypt(a.sender, a.receiver, a.message) = Throw
         THEN tasks' = [tasks EXCEPT ![t] = [IdleTask EXCEPT !.pc = "done", !.op = "send",
                                                           !.args = a, !.result = Throw]]
         ELSE tasks' = [tasks EXCEPT ![t] =
                          [IdleTask EXCEPT !.pc = "sealing", !.op = "send", !.args = a,
                             !.directMsg = buildDirectMessage(sender.publicKey, a.receiver,
                                                              a.message, now)]]
  /\ UNCHANGED <<now, issued, sent, call, page, disputes, invoices, monitor>>

\* sealMessage from that await to its return
SendSealed(t) ==
  /\ tasks[t].pc = "sealing"
  /\ tasks' = [tasks EXCEPT ![t].pc = "sealed",
                            ![t].sealedMsg = sealMessage(tasks[t].directMsg,
                                                         tasks[t].args.sender,
                                                         tasks[t].args.receiver)]
  /\ UNCHANGED <<now, issued, sent, call, page, disputes, invoices, monitor>>

\* generateNostrKeys, and giftWrapMessage up to the await of nip04.encrypt
SendWrap(t, w) ==
  /\ tasks[t].pc = "sealed"
  /\ w \in generateNostrKeys(issued)
  /\ IF IsPrivateKey(w)
     THEN /\ tasks' = [tasks EXCEPT ![t].pc = "wrapping", ![t].wrapper = w]
          /\ issued' = issued \cup {w}
     ELSE /\ tasks' = [tasks EXCEPT ![t].pc = "done", ![t].result = Throw]
          /\ UNCHANGED issued
  /\ UNCHANGED <<now, sent, call, page, disputes, invoices, monitor>>

\* the sealed message a call wraps when sealMessage's result is kept in a
\* variable of the module: the one of the latest call that has sealed
SharedSealed ==
  tasks[CHOOSE u \in TaskIds :
          /\ tasks[u].sealedMsg # Null
          /\ \A v \in TaskIds : tasks[v].sealedMsg # Null => v <= u].sealedMsg

SendWrapped_sharedSealed(t) ==
  /\ tasks[t].pc = "wrapping"
  /\ tasks' = [tasks EXCEPT ![t].pc = "done",
                            ![t].result = giftWrapMessage(SharedSealed, tasks[t].wrapper,
                                                          tasks[t].args.receiver, now)]
  /\ UNCHANGED <<now, issued, sent, call, page, disputes, invoices, monitor>>

\* giftWrapMessage from that await to its return: created_at is read here
SendWrapped(t) ==
  /\ tasks[t].pc = "wrapping"
  /\ tasks' = [tasks EXCEPT ![t].pc = "done",
                            ![t].result = giftWrapMessage(tasks[t].sealedMsg,
                                                          tasks[t].wrapper,
                                                          tasks[t].args.receiver, now)]
  /\ UNCHANGED <<now, issued, sent, call, page, disputes, invoices, monitor>>

\* receiveGiftWrappedMessages up to the await of pool.list
RecvStart(t, privateKey) ==
  /\ tasks[t].pc = "idle"
  /\ tasks' = [tasks EXCEPT ![t] =
                 IF IsPrivateKey(privateKey)
                 THEN [IdleTask EXCEPT !.pc = "listing", !.op = "receive",
                                       !.key = privateKey]
                 ELSE [IdleTask EXCEPT !.pc = "done", !.op = "receive",
                                       !.key = privateKey, !.result = Throw]]
  /\ UNCHANGED <<now, issued, sent, call, page, disputes, invoices, monitor>>

\* pool.list resolves or rejects
RecvListed(t, listed) ==
  /\ tasks[t].pc = "listing"
  /\ tasks' = [tasks EXCEPT ![t] =
                 IF listed = Throw
                 THEN [@ EXCEPT !.pc = "done", !.result = Array(<<>>)]
                 ELSE [@ EXCEPT !.pc = "decrypting", !.listed = listed]]
  /\ UNCHANGED <<now, issued, sent, call, page, disputes, invoices, monitor>>

\* the decryptions resolve and the messages are filtered
RecvDone(t) ==
  /\ tasks[t].pc = "decrypting"
  /\ \E messages \in decryptAll(tasks[t].key, tasks[t].listed.v) :
       tasks' = [tasks EXCEPT ![t].pc = "done",
                              ![t].result = Array(validMessages(messages))]
  /\ UNCHANGED <<now, issued, sent, call, page, disputes, invoices, monitor>>

TaskArgs == [sender : UserScalars, receiver : {0} \cup UserPubkeys, message : Messages]

NextTasks ==
  \/ Tick
  \/ \E t \in TaskIds, a \in TaskArgs : SendStart(t, a)
  \/ \E t \in TaskIds : SendSealed(t)
  \/ \E t \in TaskIds, w \in PrivateKeys : SendWrap(t, w)
  \/ \E t \in TaskIds : SendWrapped(t)
  \/ \E t \in TaskIds, k \in {0} \cup UserScalars : RecvStart(t, k)
  \/ \E t \in TaskIds :
       \/ RecvListed(t, Throw)
       \/ \E l \in Listings(getPublicKey(tasks[t].key)) : RecvListed(t, Array(l))
  \/ \E t \in TaskIds : RecvDone(t)

SpecTasks == Init /\ [][NextTasks]_vars

\* ------------------------------------------------- lib/services/dispute.ts
MaxDisputes == 1     \* calls of createDispute
MaxEvidence == 2     \* evidence strings of one dispute

\* the pubkey the environment names as arbiter, when it names one
ArbiterPubkey == -(NumUsers + 1)

\* the pubkey strings callers pass: '' and those of the parties and the arbiter
CallerPubkeys == {0} \cup UserPubkeys \cup {ArbiterPubkey}

\* the private key strings callers pass
CallerPrivateKeys == {0} \cup UserScalars \cup {NumUsers + 1}

Undefined == [t |-> "undefined"]

EvidenceLists == {<<>>, <<"evidence">>}

\* the sends of one try block in their order, up to the first that throws;
\* every send draws its own wrapper key
RECURSIVE notify(_, _, _, _, _)
notify(privateKey, recipients, content, drawn, time) ==
  IF recipients = <<>> THEN {[delivered |-> <<>>, failed |-> FALSE]}
  ELSE UNION {IF sendGiftWrappedMessage(privateKey, Head(recipients), content, w, time)
                   = Throw
              THEN {[delivered |-> <<>>, failed |-> TRUE]}
              ELSE {[delivered |-> <<Head(recipients)>> \o n.delivered,
                     failed |-> n.failed] :
                      n \in notify(privateKey, Tail(recipients), content,
                                   drawn \cup {w}, time)} :
                w \in generateNostrKeys(drawn)}

Notice(action, id) ==
  JSON_stringify([type |-> "dispute", action |-> action, disputeId |-> id])

\* What a call leaves: its result (Throw or the Dispute object it returns), the
\* object as it is after the call, the notifications sent, and whether a send
\* threw.
Outcome(result, dispute, n) ==
  [result |-> result, dispute |-> dispute, notified |-> n.delivered, failed |-> n.failed]

NotNotified == [delivered |-> <<>>, failed |-> FALSE]

IfSet(pubkey) == IF pubkey # 0 THEN <<pubkey>> ELSE <<>>

createDispute(buyerPrivateKey, buyerPubkey, sellerPubkey, request, id, drawn, time, ARBITER_PUBKEY) ==
  LET dispute == [id |-> id, buyerPubkey |-> buyerPubkey, sellerPubkey |-> sellerPubkey,
                  arbiterPubkey |-> ARBITER_PUBKEY, evidence |-> request.evidence,
                  status |-> "pending", createdAt |-> time, updatedAt |-> time,
                  resolution |-> Undefined]
  IN  {Outcome(dispute, dispute, n) :
         n \in notify(buyerPrivateKey, <<sellerPubkey>> \o IfSet(ARBITER_PUBKEY),
                      Notice("created", id), drawn, time)}

OtherParty(pubkey, dispute) ==
  IF pubkey = dispute.buyerPubkey THEN dispute.sellerPubkey ELSE dispute.buyerPubkey

addDisputeEvidence(senderPrivateKey, senderPubkey, dispute, evidence, drawn, time) ==
  LET updated == [dispute EXCEPT !.evidence = dispute.evidence \o evidence,
                                 !.updatedAt = time]
  IN  {Outcome(updated, updated, n) :
         n \in notify(senderPrivateKey,
                      <<OtherParty(senderPubkey, dispute)>> \o IfSet(dispute.arbiterPubkey),
                      Notice("evidence-added", dispute.id), drawn, time)}

Resolutions == {"buyer", "seller", "partial"}

DisputeResolution(resolution, refundPercentage, resolvedBy, time) ==
  [resolution |-> resolution,
   refundPercentage |-> IF resolution = "partial" THEN refundPercentage ELSE Undefined,
   resolvedBy |-> resolvedBy, comments |-> Empty, timestamp |-> time]

resolveDisputeByParties(resolverPrivateKey, resolverPubkey, dispute, resolution, refundPercentage, drawn, time) ==
  IF resolverPubkey # dispute.buyerPubkey /\ resolverPubkey # dispute.sellerPubkey
  THEN {Outcome(Throw, dispute, NotNotified)}
  ELSE LET disputeResolution ==
             DisputeResolution(resolution, refundPercentage, resolverPubkey, time)
           updated == [dispute EXCEPT !.resolution = disputeResolution,
                                      !.status = "resolved",
                                      !.updatedAt = disputeResolution.timestamp]
       IN  {Outcome(updated, updated, n) :
              n \in notify(resolverPrivateKey,
                           <<OtherParty(resolverPubkey, dispute)>>
                             \o IfSet(dispute.arbiterPubkey),
                           Notice("resolved", dispute.id), drawn, time)}

resolveDisputeByArbiter(arbiterPrivateKey, arbiterPubkey, dispute, resolution, refundPercentage, drawn, time) ==
  IF arbiterPubkey # dispute.arbiterPubkey
  THEN {Outcome(Throw, dispute, NotNotified)}
  ELSE LET disputeResolution ==
             DisputeResolution(resolution, refundPercentage, arbiterPubkey, time)
           updated == [dispute EXCEPT !.resolution = disputeResolution,
                                      !.status = "resolved",
                                      !.updatedAt = disputeResolution.timestamp]
       IN  {Outcome(updated, updated, n) :
              n \in notify(arbiterPrivateKey,
                           <<dispute.buyerPubkey, dispute.sellerPubkey>>,
                           Notice("resolved-by-arbiter", dispute.id), drawn, time)}

\* requestArbitration letting a failed notification reach its caller
requestArbitration_noCatch(requesterPrivateKey, requesterPubkey, dispute, drawn, time) ==
  IF requesterPubkey # dispute.buyerPubkey /\ requesterPubkey # dispute.sellerPubkey
  THEN {Outcome(Throw, dispute, NotNotified)}
  ELSE IF dispute.arbiterPubkey = 0
  THEN {Outcome(Throw, dispute, NotNotified)}
  ELSE LET updated == [dispute EXCEPT !.status = "arbitration", !.updatedAt = time]
       IN  {Outcome(IF n.failed THEN Throw ELSE updated, updated, n) :
              n \in notify(requesterPrivateKey,
                           <<dispute.arbiterPubkey, OtherParty(requesterPubkey, dispute)>>,
                           Notice("arbitration-requested", dispute.id), drawn, time)}

requestArbitration(requesterPrivateKey, requesterPubkey, dispute, drawn, time) ==
  IF requesterPubkey # dispute.buyerPubkey /\ requesterPubkey # dispute.sellerPubkey
  THEN {Outcome(Throw, dispute, NotNotified)}
  ELSE IF dispute.arbiterPubkey = 0
  THEN {Outcome(Throw, dispute, NotNotified)}
  ELSE LET updated == [dispute EXCEPT !.status = "arbitration", !.updatedAt = time]
       IN  {Outcome(updated, updated, n) :
              n \in notify(requesterPrivateKey,
                           <<dispute.arbiterPubkey, OtherParty(requesterPubkey, dispute)>>,
                           Notice("arbitration-requested", dispute.id), drawn, time)}

\* the module is loaded with some ARBITER_PUBKEY in the environment, or none
InitDispute ==
  /\ now = 0
  /\ issued = UserScalars
  /\ sent = {}
  /\ call = NoCall
  /\ page = InitialPage
  /\ tasks = [t \in TaskIds |-> IdleTask]
  /\ disputes \in {NoDisputes(a) : a \in {0, ArbiterPubkey}}
  /\ invoices = <<>>
  /\ monitor = NoMonitoring

\* the call and what it left, for its caller to look at
DisputeCall(op, pubkey, i, args, before, o) ==
  [op |-> op, caller |-> pubkey, dispute |-> i, args |-> args, before |-> before,
   result |-> o.result, notified |-> o.notified, failed |-> o.failed]

CreateDispute(buyerPrivateKey, buyerPubkey, sellerPubkey, evidence) ==
  /\ call = NoCall
  /\ Len(disputes.list) < MaxDisputes
  /\ \E o \in createDispute(buyerPrivateKey, buyerPubkey, sellerPubkey,
                            [evidence |-> evidence], Len(disputes.list) + 1, issued,
                            now, disputes.ARBITER_PUBKEY) :
       /\ disputes' = [disputes EXCEPT !.list = Append(@, o.dispute)]
       /\ call' = DisputeCall("createDispute", buyerPubkey, Len(disputes.list) + 1,
                              [evidence |-> evidence], Undefined, o)
  /\ UNCHANGED <<now, issued, sent, page, tasks, invoices, monitor>>

AddDisputeEvidence(i, privateKey, pubkey, evidence) ==
  /\ call = NoCall
  /\ i \in DOMAIN disputes.list
  /\ Len(disputes.list[i].evidence) + Len(evidence) <= MaxEvidence
  /\ \E o \in addDisputeEvidence(privateKey, pubkey, disputes.list[i], evidence, issued,
                                 now) :
       /\ disputes' = [disputes EXCEPT !.list[i] = o.dispute]
       /\ call' = DisputeCall("addDisputeEvidence", pubkey, i, [evidence |-> evidence],
                              disputes.list[i], o)
  /\ UNCHANGED <<now, issued, sent, page, tasks, invoices, monitor>>

ResolveDisputeByParties(i, privateKey, pubkey, resolution, refundPercentage) ==
  /\ call = NoCall
  /\ i \in DOMAIN disputes.list
  /\ \E o \in resolveDisputeByParties(privateKey, pubkey, disputes.list[i], resolution,
                                      refundPercentage, issued, now) :
       /\ disputes' = [disputes EXCEPT !.list[i] = o.dispute]
       /\ call' = DisputeCall("resolveDisputeByParties", pubkey, i,
                              [resolution |-> resolution,
                               refundPercentage |-> refundPercentage],
                              disputes.list[i], o)
  /\ UNCHANGED <<now, issued, sent, page, tasks, invoices, monitor>>

ResolveDisputeByArbiter(i, privateKey, pubkey, resolution, refundPercentage) ==
  /\ call = NoCall
  /\ i \in DOMAIN disputes.list
  /\ \E o \in resolveDisputeByArbiter(privateKey, pubkey, disputes.list[i], resolution,
                                      refundPercentage, issued, now) :
       /\ disputes' = [disputes EXCEPT !.list[i] = o.dispute]
       /\ call' = DisputeCall("resolveDisputeByArbiter", pubkey, i,
                              [resolution |-> resolution,
                               refundPercentage |-> refundPercentage],
                              disputes.list[i], o)
  /\ UNCHANGED <<now, issued, sent, page, tasks, invoices, monitor>>

RequestArbitration(i, privateKey, pubkey) ==
  /\ call = NoCall
  /\ i \in DOMAIN disputes.list
  /\ \E o \in requestArbitration(privateKey, pubkey, disputes.list[i], issued, now) :
       /\ disputes' = [disputes EXCEPT !.list[i] = o.dispute]
       /\ call' = DisputeCall("requestArbitration", pubkey, i, Null, disputes.list[i], o)
  /\ UNCHANGED <<now, issued, sent, page, tasks, invoices, monitor>>

\* refundPercentage is left out or is a number
RefundPercentages == {Undefined, [t |-> "number", v |-> 50]}

NextDispute ==
  \/ Tick
  \/ Return
  \/ \E k \in CallerPrivateKeys, b \in UserPubkeys, s \in UserPubkeys, e \in EvidenceLists :
       CreateDispute(k, b, s, e)
  \/ \E i \in 1..MaxDisputes, k \in CallerPrivateKeys, p \in CallerPubkeys :
       \/ \E e \in EvidenceLists : AddDisputeEvidence(i, k, p, e)
       \/ \E r \in Resolutions, pct \in RefundPercentages :
            \/ ResolveDisputeByParties(i, k, p, r, pct)
            \/ ResolveDisputeByArbiter(i, k, p, r, pct)
       \/ RequestArbitration(i, k, p)

SpecDispute == InitDispute /\ [][NextDispute]_vars

\* ------------------------------------- simulated HODL invoices (dispute.ts)
MaxInvoices == 1     \* calls of createHodlInvoice
NumPreimages == 2    \* distinct strings of 64 hexadecimal characters
MaxExpiry == 1       \* expirySeconds takes the values 0..MaxExpiry

\* A preimage string is a number: 0 is '', 1..NumPreimages are strings of 64
\* hexadecimal characters, the first of them '00...00', and NonHexPreimage is
\* a string of 64 characters that are no hexadecimal digits.
HexPreimages == 1..NumPreimages
NonHexPreimage == NumPreimages + 1
PreimageStrings == {0} \cup HexPreimages \cup {NonHexPreimage}

\* new Uint8Array(preimage.match(/.{1,2}/g)!.map(byte => parseInt(byte, 16))):
\* match gives null for '', and NaN is stored as the byte 0
PreimageBytes(preimage) ==
  CASE preimage = 0 -> Throw
    [] preimage = NonHexPreimage -> [t |-> "bytes", v |-> 1]
    [] OTHER -> [t |-> "bytes", v |-> preimage]

sha256(bytes) == [t |-> "sha256", of |-> bytes]

hashPreimage(preimage) ==
  IF PreimageBytes(preimage) = Throw THEN Throw
  ELSE [preimage |-> preimage, hash |-> sha256(PreimageBytes(preimage))]

\* the hash of generatePreimageAndHash: the preimage string reversed
generatePreimageAndHash(preimage) ==
  [preimage |-> preimage, hash |-> [t |-> "reversed", of |-> preimage]]

\* the hash strings createHodlInvoice is given
HashStrings ==
  {hashPreimage(p).hash : p \in HexPreimages}
    \cup {generatePreimageAndHash(p).hash : p \in HexPreimages}

Amount == 5000

createHodlInvoice(amount, hash, expirySeconds, id, time) ==
  [id |-> id, paymentRequest |-> [t |-> "lnbcrt", amount |-> amount, hash |-> hash, id |-> id],
   preimage |-> 0, hash |-> hash, amount |-> amount, status |-> "pending",
   createdAt |-> time, expiresAt |-> time + expirySeconds]

\* payHodlInvoice paying an invoice whatever its expiry
payHodlInvoice_noExpiry(invoice, time) ==
  IF invoice.status \in {"settled", "canceled"} THEN Throw
  ELSE [invoice EXCEPT !.status = "held"]

payHodlInvoice(invoice, time) ==
  IF time > invoice.expiresAt THEN Throw
  ELSE IF invoice.status \in {"settled", "canceled"} THEN Throw
  ELSE [invoice EXCEPT !.status = "held"]

\* settleHodlInvoice settling an invoice whatever its status
settleHodlInvoice_anyStatus(invoice, providedPreimage, time) ==
  IF time > invoice.expiresAt THEN Throw
  ELSE IF hashPreimage(providedPreimage) = Throw THEN Throw
  ELSE IF hashPreimage(providedPreimage).hash = invoice.hash
       THEN [invoice EXCEPT !.status = "settled", !.preimage = providedPreimage]
       ELSE invoice

settleHodlInvoice(invoice, providedPreimage, time) ==
  IF time > invoice.expiresAt THEN Throw
  ELSE IF invoice.status # "held" THEN Throw
  ELSE IF hashPreimage(providedPreimage) = Throw THEN Throw
  ELSE IF hashPreimage(providedPreimage).hash = invoice.hash
       THEN [invoice EXCEPT !.status = "settled", !.preimage = providedPreimage]
       ELSE invoice

cancelHodlInvoice(invoice) ==
  IF invoice.status = "settled" THEN Throw
  ELSE [invoice EXCEPT !.status = "canceled"]

isInvoiceExpired(invoice, time) == time > invoice.expiresAt

ExpiredFor == 100

createExpiredInvoice(invoice, time) == [invoice EXCEPT !.expiresAt = time - ExpiredFor]

\* The holder of an invoice calls a function on it and keeps what it returns.
CreateHodlInvoice(hash, expirySeconds) ==
  /\ call = NoCall
  /\ Len(invoices) < MaxInvoices
  /\ LET invoice == createHodlInvoice(Amount, hash, expirySeconds, Len(invoices) + 1, now)
     IN  /\ invoices' = Append(invoices, invoice)
         /\ call' = [op |-> "createHodlInvoice", invoice |-> Null, preimage |-> 0,
                     result |-> invoice]
  /\ UNCHANGED <<now, issued, sent, page, tasks, disputes, monitor>>

\* the call on invoice i has given result
Kept(op, i, providedPreimage, result) ==
  /\ call' = [op |-> op, invoice |-> invoices[i], preimage |-> providedPreimage,
              result |-> result]
  /\ invoices' = IF result = Throw THEN invoices ELSE [invoices EXCEPT ![i] = result]

PayHodlInvoice(i) ==
  /\ call = NoCall
  /\ i \in DOMAIN invoices
  /\ Kept("payHodlInvoice", i, 0, payHodlInvoice(invoices[i], now))
  /\ UNCHANGED <<now, issued, sent, page, tasks, disputes, monitor>>

SettleHodlInvoice(i, providedPreimage) ==
  /\ call = NoCall
  /\ i \in DOMAIN invoices
  /\ Kept("settleHodlInvoice", i, providedPreimage,
          settleHodlInvoice(invoices[i], providedPreimage, now))
  /\ UNCHANGED <<now, issued, sent, page, tasks, disputes, monitor>>

CancelHodlInvoice(i) ==
  /\ call = NoCall
  /\ i \in DOMAIN invoices
  /\ Kept("cancelHodlInvoice", i, 0, cancelHodlInvoice(invoices[i]))
  /\ UNCHANGED <<now, issued, sent, page, tasks, disputes, monitor>>

CreateExpiredInvoice(i) ==
  /\ call = NoCall
  /\ i \in DOMAIN invoices
  /\ Kept("createExpiredInvoice", i, 0, createExpiredInvoice(invoices[i], now))
  /\ UNCHANGED <<now, issued, sent, page, tasks, disputes, monitor>>

NextHodl ==
  \/ Tick
  \/ Return
  \/ \E h \in HashStrings, x \in 0..MaxExpiry : CreateHodlInvoice(h, x)
  \/ \E i \in 1..MaxInvoices :
       \/ PayHodlInvoice(i)
       \/ \E p \in PreimageStrings : SettleHodlInvoice(i, p)
       \/ CancelHodlInvoice(i)
       \/ CreateExpiredInvoice(i)

SpecHodl == Init /\ [][NextHodl]_vars

\* ------------------------------- automated settlement service (dispute.ts)
\* addInvoiceToMonitoring: setInterval, then the entry of the hash is written
AddInvoice(hash) ==
  /\ monitor.started < MaxTimers
  /\ LET checkInterval == monitor.started + 1
     IN  monitor' =
           [monitor EXCEPT
              !.started = checkInterval,
              !.timers = @ \cup {[id |-> checkInterval, hash |-> hash,
                                  resettled |-> monitor.settled[hash] > 0,
                                  late |-> monitor.cleaned]},
              !.monitoredInvoices =
                 {e \in @ : e.hash # hash}
                   \cup {[hash |-> hash, checkInterval |-> checkInterval]}]
  /\ UNCHANGED <<now, issued, sent, call, page, tasks, disputes, invoices>>

\* a timer fires: its callback runs up to the await of orderCompletionCallback
TimerFires(id) ==
  /\ monitor.ticks < MaxTicks
  /\ \E timer \in monitor.timers :
       /\ timer.id = id
       /\ monitor' = [monitor EXCEPT
                        !.ticks = @ + 1,
                        !.runs = @ \cup {[run |-> monitor.ticks + 1, hash |-> timer.hash,
                                          late |-> timer.late, pc |-> "checking"]}]
  /\ UNCHANGED <<now, issued, sent, call, page, tasks, disputes, invoices>>

\* orderCompletionCallback resolves to true or to false, or rejects; when the
\* order is complete settleHodlInvoice is called and runs up to the await of
\* fetch
CompletionAnswers(run, isComplete) ==
  /\ \E r \in monitor.runs :
       /\ r.run = run
       /\ r.pc = "checking"
       /\ IF isComplete = "true"
          THEN monitor' = [monitor EXCEPT
                             !.runs = (@ \ {r}) \cup {[r EXCEPT !.pc = "settling"]},
                             !.invoked[r.hash] = @ + 1,
                             !.settledLate = @ \/ (monitor.cleaned /\ ~r.late)]
          ELSE monitor' = [monitor EXCEPT !.runs = @ \ {r}]
  /\ UNCHANGED <<now, issued, sent, call, page, tasks, disputes, invoices>>

\* the timers clearInterval(monitoredInvoices[hash].checkInterval) clears; with
\* no entry for the hash the expression throws and the catch logs
EntryTimers(hash) ==
  {t \in monitor.timers :
     \E e \in monitor.monitoredInvoices : e.hash = hash /\ e.checkInterval = t.id}

\* the node answers the settle request: settleHodlInvoice (node version)
\* returns true or throws, and the callback goes on to its end
SettleAnswers(run, ok) ==
  /\ \E r \in monitor.runs :
       /\ r.run = run
       /\ r.pc = "settling"
       /\ IF ok
          THEN monitor' = [monitor EXCEPT
                             !.runs = @ \ {r},
                             !.settled[r.hash] = @ + 1,
                             !.timers = @ \ EntryTimers(r.hash),
                             !.monitoredInvoices = {e \in @ : e.hash # r.hash}]
          ELSE monitor' = [monitor EXCEPT !.runs = @ \ {r}]
  /\ UNCHANGED <<now, issued, sent, call, page, tasks, disputes, invoices>>

\* cleanup: clearInterval on the checkInterval of every entry
Cleanup ==
  /\ monitor' = [monitor EXCEPT
                   !.cleaned = TRUE,
                   !.timers = {t \in @ : \A e \in monitor.monitoredInvoices :
                                           e.checkInterval # t.id}]
  /\ UNCHANGED <<now, issued, sent, call, page, tasks, disputes, invoices>>

NextSettle ==
  \/ \E h \in InvoiceHashes : AddInvoice(h)
  \/ \E id \in 1..MaxTimers : TimerFires(id)
  \/ \E run \in 1..MaxTicks, isComplete \in {"true", "false", "rejects"} :
       CompletionAnswers(run, isComplete)
  \/ \E run \in 1..MaxTicks, ok \in BOOLEAN : SettleAnswers(run, ok)
  \/ Cleanup

SpecSettle == Init /\ [][NextSettle]_vars

\* ===================================================================== claims
\* the private key whose public key is pk
PrivateKeyOf(pk) == -pk

IsReceive == call.op = "receive"

\* the sends of the simulated pipeline (build -> seal -> wrap)
Pipeline == {s \in sent : s.version = "simulated"}

\* C1: round trip. Receiving, with the receiver's private key, the wrapped event
\* a send of the pipeline returned yields the message of that send, and the
\* sealed event recovered on the way names the sender's public key as its author.
C1_RoundTrip ==
  IsReceive =>
    \A s \in Pipeline :
      (call.event = s.wrapped /\ call.key = PrivateKeyOf(s.receiver)) =>
        /\ call.decryptedContent = s.message
        /\ call.unwrappedMsg # Null
        /\ call.unwrappedMsg.pubkey = getPublicKey(s.sender)

C1_Witness ==
  /\ IsReceive
  /\ \E s \in Pipeline :
       /\ call.event = s.wrapped
       /\ call.key = PrivateKeyOf(s.receiver)
       /\ s.sender # call.key
       /\ call.decryptedContent = s.message

\* C2: tamper sensitivity. Receiving, with the receiver's private key, a wrapped
\* event of the pipeline with one byte of its content changed never returns a
\* plaintext.
C2_TamperFails ==
  IsReceive =>
    \A s \in Pipeline :
      (call.event \in TamperedEvents(s.wrapped) /\ call.key = PrivateKeyOf(s.receiver)) =>
        call.decryptedContent = Null

\* C3: wrong-key rejection. Receiving a sent event with a private key that is
\* not its receiver's returns the failure result: no sealed event, no plaintext.
C3_WrongKey ==
  IsReceive =>
    \A s \in sent :
      (call.event = s.wrapped /\ call.key # PrivateKeyOf(s.receiver)) =>
        /\ call.unwrappedMsg = Null
        /\ call.decryptedContent = Null

C3_Witness ==
  /\ IsReceive
  /\ \E s \in Pipeline :
       /\ call.event = s.wrapped
       /\ call.key \in UserScalars \ {PrivateKeyOf(s.receiver), s.sender}
       /\ call.unwrappedMsg = Null
       /\ call.decryptedContent = Null

SameArgs(s1, s2) ==
  /\ s1.sender = s2.sender
  /\ s1.receiver = s2.receiver
  /\ s1.message = s2.message

\* C4: sender anonymity. Two separate sends with the same sender, receiver and
\* message return events whose authors differ from each other and from the
\* sender's public key.
C4_SenderAnonymity ==
  \A s1, s2 \in sent :
    (s1 # s2 /\ SameArgs(s1, s2)) =>
      /\ s1.wrapped.pubkey # s2.wrapped.pubkey
      /\ s1.wrapped.pubkey # getPublicKey(s1.sender)
      /\ s2.wrapped.pubkey # getPublicKey(s2.sender)

\* C5: the author of the event giftWrapMessage returns is never the author of
\* the sealed event it encloses.
C5_WrapperIsNotSender ==
  /\ \A s \in Pipeline : s.wrapped.pubkey # s.sealed.pubkey
  /\ (call.op = "giftWrap" /\ call.result # Throw) =>
       call.result.pubkey # call.sealed.pubkey

\* C6: receive verifies. A wrapped event whose tags, created_at, pubkey, id or
\* sig was changed after signing, so that it no longer verifies, is not
\* received: no sealed event, no plaintext.
C6_ReceiveVerifies ==
  IsReceive =>
    \A e \in Wire :
      (call.event \in MutatedEvents(e) /\ ~verifyEvent(call.event)) =>
        /\ call.unwrappedMsg = Null
        /\ call.decryptedContent = Null

\* the events seal, wrap and send have returned or handed to the transport
Returned ==
  Wire \cup {s.sealed : s \in Pipeline}
       \cup (IF call.op = "giftWrap" /\ call.result # Throw THEN {call.result} ELSE {})

\* C7: every event returned by seal, wrap or send carries the hash of its own
\* fields as id and a signature over that id valid under its pubkey, and with
\* content, tags, created_at or pubkey changed afterwards the id recomputed from
\* the fields is no longer the id it carries.
C7_SignedIds ==
  /\ \A e \in Returned : verifyEvent(e)
  /\ \A e \in Wire :
       \A m \in TamperedEvents(e) \cup MutatedEvents(e) :
         (m.id = e.id /\ m.sig = e.sig) => getEventHash(m) # m.id

C7_Witness ==
  /\ call.op = "giftWrap"
  /\ call.result # Throw
  /\ \E s \in Pipeline :
       /\ verifyEvent(s.sealed)
       /\ verifyEvent(s.wrapped)
       /\ \E m \in MutatedEvents(s.wrapped) : m.id = s.wrapped.id /\ getEventHash(m) # m.id

\* C8: every event a send hands to the transport is a wrapped event, kind 1059.
C8_OnlyWrappedOnWire == \A e \in Wire : e.kind = 1059

\* C9: layer discriminants along one send. The direct event has kind 14 and the
\* message as content, the sealed event kind 13 and a content that is not the
\* message, the wrapped event kind 1059 and an author that is neither the
\* sender's nor the receiver's public key.
C9_LayerTags ==
  \A s \in sent :
    /\ s.wrapped.kind = 1059
    /\ s.wrapped.pubkey \notin {getPublicKey(s.sender), s.receiver}
    /\ s.sealed # Null
    /\ s.sealed.kind = 13
    /\ s.sealed.content # s.message
    /\ s.direct # Null
    /\ s.direct.kind = 14
    /\ s.direct.content = s.message

\* C10: uniform receive failure. The outcome a caller sees of a receive that
\* recovered no plaintext is the outcome of every other receive that recovers
\* none, whichever event and key it is given.
C10_UniformFailure ==
  (IsReceive /\ call.decryptedContent = Null) =>
    \A e \in Arrivals, k \in {0} \cup issued :
      \A o \in receive(e, k) :
        o[2] = Null => o = <<call.unwrappedMsg, call.decryptedContent>>

\* an event whose content is not a ciphertext under the secret of privateKey and
\* the event's author, or was changed after encryption
Undecryptable(event, privateKey) ==
  IF event.content.t # "ct" THEN TRUE
  ELSE \/ event.content.dmg # "none"
       \/ event.content.key # getSharedSecret(privateKey, event.pubkey)

\* C11: the delivery loop keeps going. A call of receiveGiftWrappedMessages
\* with a valid key never throws; an event of the batch that is malformed,
\* tampered or undecryptable yields no message, every other event yields its
\* plaintext, and what is returned is exactly the messages so obtained. The
\* same holds of each event a subscription hands to its handler.
C11_DeliveryLoop ==
  /\ (call.op = "list" /\ IsPrivateKey(call.key)) =>
       /\ call.result # Throw
       /\ call.listed # Throw =>
            /\ call.messages # Null
            /\ \A i \in 1..Len(call.listed.v) :
                 LET e == call.listed.v[i]
                     m == call.messages.v[i]
                 IN  IF Undecryptable(e, call.key) THEN m = Null
                     ELSE m # Null /\ m.message = e.content.pt
            /\ call.result.v = SelectSeq(call.messages.v, NotNull)
  /\ call.op = "event" =>
       IF Undecryptable(call.event, call.key) THEN call.callback = Null
       ELSE call.callback # Null /\ call.callback.message = call.event.content.pt

\* the fields the id is taken of
IdFields(e) == <<e.pubkey, e.created_at, e.kind, e.tags, e.content>>

C13_ImportValidation ==
  call.op = "import" =>
    /\ call.key \in {TooShort, TooLong} => call.result = Throw
    /\ call.key = NotHex => call.result = Throw
    /\ ~IsPrivateKey(call.key) => call.result = Throw
    /\ call.result # Throw =>
         /\ call.result.privateKey = call.key
         /\ call.result.publicKey = getPublicKey(call.key)

C13_Witness ==
  /\ call.op = "import"
  /\ call.version = "simulated"
  /\ call.key = TooLong
  /\ call.result = Throw

\* C14: generate always succeeds. Whatever bytes the random source gives, a
\* call of generateNostrKeys returns keys: a private key that is a valid scalar
\* and the public key derived from it.
C14_GenerateSucceeds ==
  call.op = "generate" =>
    /\ call.result # Throw
    /\ IsPrivateKey(call.result.privateKey)
    /\ call.result.publicKey = getPublicKey(call.result.privateKey)

\* C15: a P2PK-locked token is spent only with the private key of the public
\* key it is locked to. Every spend the page reports as successful was made
\* with a private key field holding the key whose public key is the token's lock.
C15_OnlyKeyHolderSpends ==
  page.spendDetails # Null =>
    /\ page.spendResult = "true"
    /\ IsPrivateKey(page.spendDetails.keyVerified)
    /\ getPublicKey(page.spendDetails.keyVerified) = page.spendDetails.token.p2pk

\* C16: seal encrypts the whole signed direct event. Decrypting the content of
\* a sealed event with the receiver's private key and the sender's public key
\* yields the serialization of an event of kind 14 that carries its own id and
\* signature.
C16_SealEnclosesDirect ==
  \A s \in Pipeline :
    \A d \in nip04_decrypt(PrivateKeyOf(s.receiver), s.sealed.pubkey, s.sealed.content) :
      /\ d.t = "json"
      /\ d.v.t = "event"
      /\ d.v.kind = 14
      /\ d.v.id # Empty
      /\ d.v.sig # Empty

\* C17: unwrap returns only well-formed, validly signed sealed events. What
\* unwrapGiftMessage returns other than null is an event of kind 13 with all
\* its fields, whose id and signature verify.
C17_UnwrapReturnsVerifiedSealed ==
  (IsReceive /\ call.unwrappedMsg # Null) =>
    /\ call.unwrappedMsg.t = "event"
    /\ call.unwrappedMsg.kind = 13
    /\ verifyEvent(call.unwrappedMsg)

\* the key strings an observer holding the private keys K reads in v: the
\* pubkey, the tags and the signature's key of an event, what is inside a
\* ciphertext whose secret one of K derives, the pubkey of a response
RECURSIVE KeysIn(_, _)
KeysIn(v, K) ==
  CASE v.t = "event" ->
         {v.pubkey} \cup {v.tags[i][2] : i \in 1..Len(v.tags)}
                    \cup KeysIn(v.content, K) \cup KeysIn(v.sig, K)
    [] v.t = "ct" -> IF K \cap v.key # {} THEN KeysIn(v.pt, K) ELSE {}
    [] v.t = "json" -> KeysIn(v.v, K)
    [] v.t = "sig" -> {v.pub}
    [] v.t = "response" -> IF v.status = 200 THEN {v.event.pubkey} ELSE {}
    [] OTHER -> {}

\* the private keys drawn for wrapping
WrapperKeys == issued \ UserScalars

\* C18: no private key is readable. In the wrapped event of a send, an
\* observer holding no private key, and one holding the private keys of the
\* parties other than the sender, reads neither the sender's private key nor
\* a wrapper's; nor does the response of the API route hold one.
C18_NoPrivateKeyVisible ==
  /\ \A s \in Pipeline :
       \A K \in {{}, UserScalars \ {s.sender}} :
         KeysIn(s.wrapped, K) \cap ({s.sender} \cup WrapperKeys) = {}
  /\ call.op = "post" =>
       KeysIn(call.response, {}) \cap (UserScalars \cup WrapperKeys) = {}

C18_Witness ==
  /\ call.op = "post"
  /\ call.response.status = 200
  /\ \E s \in Pipeline :
       /\ s.wrapped.id = call.response.event.id
       /\ s.sender = call.body.senderPrivkey
       /\ s.sender # PrivateKeyOf(s.receiver)
       /\ getPublicKey(s.sender) \in KeysIn(s.wrapped, {PrivateKeyOf(s.receiver)})
       /\ getPublicKey(s.sender) \notin KeysIn(s.wrapped, {})

\* a sender key string that is no valid private key, or a receiver key string
\* that is no public key
MalformedKeys(senderPrivateKey, recipientPublicKey) ==
  \/ ~IsKeyFormat(senderPrivateKey)
  \/ ~IsPrivateKey(senderPrivateKey)
  \/ ~IsPubkey(recipientPublicKey)

\* C20: send-side errors propagate. sendGiftWrappedMessage given a malformed
\* sender private key or a malformed receiver public key throws and no event
\* comes of it, and the API route answers such a request with an error, never
\* with success.
C20_SendErrorsPropagate ==
  /\ (call.op = "send" /\ MalformedKeys(call.args.sender, call.args.receiver)) =>
       call.result = Throw
  /\ \A s \in Pipeline : ~MalformedKeys(s.sender, s.receiver)
  /\ (call.op = "post" /\ call.body # Garbage) =>
       (MalformedKeys(call.body.senderPrivkey, call.body.recipientPubkey) =>
          /\ call.response.status \in {400, 500}
          /\ call.response.error # "")

C20_Witness ==
  /\ call.op = "post"
  /\ call.body # Garbage
  /\ call.body.missing = {}
  /\ call.body.senderPrivkey = TooLong
  /\ IsPubkey(call.body.recipientPubkey)
  /\ call.response.status = 500

\* C19: concurrent calls are independent. However the calls interleave at
\* their awaits, the event a send returns is received, with its receiver's key,
\* as the message and from the sender that call was given, and what a receive
\* returns is a result of receiveGiftWrappedMessages on its own listing and key.
C19_ConcurrentIndependent ==
  \A t \in TaskIds :
    tasks[t].pc = "done" =>
      /\ (tasks[t].op = "send" /\ tasks[t].result # Throw) =>
           \A o \in receive(tasks[t].result, PrivateKeyOf(tasks[t].args.receiver)) :
             /\ o[1] # Null
             /\ o[1].pubkey = getPublicKey(tasks[t].args.sender)
             /\ o[2] = tasks[t].args.message
      /\ (tasks[t].op = "receive" /\ tasks[t].listed # Null) =>
           \E o \in receiveGiftWrappedMessages(tasks[t].key, tasks[t].listed) :
             o[2] = tasks[t].result

C19_Witness ==
  \E t, u \in TaskIds :
    /\ tasks[t].pc = "done"
    /\ tasks[t].op = "send"
    /\ tasks[t].result # Throw
    /\ tasks[u].op = "send"
    /\ tasks[u].pc = "wrapping"
    /\ tasks[u].args.message # tasks[t].args.message
    /\ tasks[u].directMsg.created_at < tasks[t].directMsg.created_at
    /\ tasks[u].wrapper < tasks[t].wrapper

\* C21: when the relay version of sendGiftWrappedMessage returns the signed
\* event although publishing failed on some relay, publishing succeeded on at
\* least one relay.
C21_ReturnedOnlyIfPublished ==
  (call.op = "sendRelay" /\ call.result # Throw /\ call.published # Relays)
    => call.published # {}

DisputeOps ==
  {"createDispute", "addDisputeEvidence", "resolveDisputeByParties",
   "resolveDisputeByArbiter", "requestArbitration"}

\* C22: a dispute becomes resolved through resolveDisputeByParties only when
\* both parties agree: the call that resolves it finds the resolution the other
\* party has put forward, and it is the same.
C22_ResolvedByAgreement ==
  (call.op = "resolveDisputeByParties" /\ call.result # Throw
     /\ disputes.list[call.dispute].status = "resolved")
    => /\ call.before.resolution # Undefined
       /\ call.before.resolution.resolvedBy = OtherParty(call.caller, call.before)
       /\ call.before.resolution.resolution
            = disputes.list[call.dispute].resolution.resolution

\* C23: resolveDisputeByParties and requestArbitration reject a caller that is
\* neither the buyer nor the seller, requestArbitration rejects when no
\* arbiter is assigned, resolveDisputeByArbiter rejects a caller that is not
\* the assigned arbiter, also when none is assigned; a rejected call leaves the
\* dispute as it was and sends no notification.
C23_DisputeAuthorization ==
  call.op \in DisputeOps \ {"createDispute"} =>
    LET before == call.before
        party == call.caller \in {before.buyerPubkey, before.sellerPubkey}
    IN  /\ (call.op \in {"resolveDisputeByParties", "requestArbitration"} /\ ~party)
             => call.result = Throw
        /\ (call.op = "requestArbitration" /\ before.arbiterPubkey = 0)
             => call.result = Throw
        /\ (call.op = "resolveDisputeByArbiter"
              /\ (before.arbiterPubkey = 0 \/ call.caller # before.arbiterPubkey))
             => call.result = Throw
        /\ call.result = Throw
             => /\ disputes.list[call.dispute] = before
                /\ call.notified = <<>>

\* C24: 'resolved' is terminal. A call on a dispute that is resolved changes
\* neither its status nor its resolution nor its evidence.
C24_ResolvedIsTerminal ==
  (call.op \in DisputeOps \ {"createDispute"} /\ call.before.status = "resolved")
    => /\ disputes.list[call.dispute].status = "resolved"
       /\ disputes.list[call.dispute].resolution = call.before.resolution
       /\ disputes.list[call.dispute].evidence = call.before.evidence

\* the state change of the call the caller is looking at is in the dispute
Applied ==
  LET dispute == disputes.list[call.dispute]
  IN  CASE call.op = "createDispute" ->
             dispute.status = "pending" /\ dispute.evidence = call.args.evidence
        [] call.op = "addDisputeEvidence" ->
             /\ dispute.evidence = call.before.evidence \o call.args.evidence
             /\ dispute.updatedAt = now
        [] call.op \in {"resolveDisputeByParties", "resolveDisputeByArbiter"} ->
             /\ dispute.status = "resolved"
             /\ dispute.resolution.resolution = call.args.resolution
             /\ dispute.resolution.resolvedBy = call.caller
        [] call.op = "requestArbitration" -> dispute.status = "arbitration"

\* C25: a failing notification never affects the dispute operation. When a
\* send of a notification throws, the operation still returns the dispute, and
\* the dispute carries the state change of the operation.
C25_NotificationFailureContained ==
  (call.op \in DisputeOps /\ call.failed)
    => /\ call.result # Throw
       /\ call.result = disputes.list[call.dispute]
       /\ Applied

C25_Witness ==
  /\ call.op = "requestArbitration"
  /\ call.failed
  /\ Len(call.notified) = 1
  /\ call.result # Throw
  /\ call.before.status = "pending"

StatusOps == {"payHodlInvoice", "settleHodlInvoice", "cancelHodlInvoice"}

\* C26: the status of a simulated invoice changes only along pending -> held,
\* held -> settled, pending -> canceled and held -> canceled: a call of
\* payHodlInvoice, settleHodlInvoice or cancelHodlInvoice that returns an
\* invoice returns it with the status it had or with one of these changes, so
\* that only a held invoice becomes settled and a settled or canceled invoice
\* keeps its status.
C26_HodlStatusMachine ==
  (call.op \in StatusOps /\ call.result # Throw) =>
    \/ call.result.status = call.invoice.status
    \/ <<call.invoice.status, call.result.status>>
         \in {<<"pending", "held">>, <<"held", "settled">>,
              <<"pending", "canceled">>, <<"held", "canceled">>}

C26_Witness ==
  /\ call.op = "settleHodlInvoice"
  /\ call.result # Throw
  /\ call.invoice.status = "held"
  /\ call.result.status = "settled"

\* C27: a settled invoice carries a preimage that hashes to its hash; a call
\* of settleHodlInvoice on a held invoice, before its expiry, with a preimage
\* that does not hash to the invoice's hash returns the invoice unchanged; an
\* invoice that is not settled has an empty preimage.
C27_SettleNeedsPreimage ==
  /\ \A i \in DOMAIN invoices :
       IF invoices[i].status = "settled"
       THEN /\ hashPreimage(invoices[i].preimage) # Throw
            /\ hashPreimage(invoices[i].preimage).hash = invoices[i].hash
       ELSE invoices[i].preimage = 0
  /\ (call.op = "settleHodlInvoice" /\ call.invoice.status = "held"
        /\ ~isInvoiceExpired(call.invoice, now)
        /\ (hashPreimage(call.preimage) = Throw
              \/ hashPreimage(call.preimage).hash # call.invoice.hash))
       => call.result = call.invoice

\* C28: past the expiry of an invoice, payHodlInvoice and settleHodlInvoice
\* raise an error, whatever the status of the invoice and the preimage given.
C28_ExpiryBlocks ==
  (call.op \in {"payHodlInvoice", "settleHodlInvoice"} /\ now > call.invoice.expiresAt)
    => call.result = Throw

C28_Witness ==
  /\ call.op = "settleHodlInvoice"
  /\ now > call.invoice.expiresAt
  /\ call.invoice.status = "held"
  /\ hashPreimage(call.preimage) # Throw
  /\ hashPreimage(call.preimage).hash = call.invoice.hash
  /\ call.result = Throw

\* C29: automated settlement settles each invoice at most once.
\* settleHodlInvoice is called at most once for an invoice, and once an
\* invoice is settled no timer started for it before is still active and it
\* has no entry left from before.
C29_SettledAtMostOnce ==
  \A h \in InvoiceHashes :
    /\ monitor.invoked[h] <= 1
    /\ monitor.settled[h] > 0 =>
         \A t \in monitor.timers : t.hash = h => t.resettled

\* C30: cleanup stops all monitoring. Once cleanup has been called, no timer
\* started before it is active and no callback of such a timer calls
\* settleHodlInvoice.
C30_CleanupStopsAll ==
  monitor.cleaned =>
    /\ \A t \in monitor.timers : t.late
    /\ ~monitor.settledLate

====
